---- MODULE Spec2Model ----
(***************************************************************************)
(* Model of src/components/dialogs/cookieBrowserDialog.tsx (getCookieList  *)
(* and the CookieBrowserDialog click handler) and of the RuleDialog        *)
(* component that follows it in the same source file.                      *)
(*                                                                         *)
(* Strings are sequences of UTF-16 code units, so that toLowerCase, the    *)
(* leading-dot strip and the < comparison of strings are computed the way  *)
(* the JavaScript code computes them.                                      *)
(***************************************************************************)
EXTENDS Integers, Sequences, FiniteSets, TLC

VARIABLES
    \* ---- getCookieList ----
    settingsRule,     \* the rule held by settings (the classification oracle)
    tld,              \* the answers of tldjs getDomain, per raw domain
    pc,               \* "idle" | "first" | "second": runs of getCookieList done
    cookies,          \* what browser.cookies.getAll({}) returned
    cookiesByDomain,  \* the cookiesByDomain object of the latest run
    result,           \* what the first run returned
    result2,          \* what the second run returned
    \* ---- CookieBrowserDialog ----
    clicks,           \* clicks on the open button so far
    pending,          \* calls of getCookieList whose promise is unresolved
    loaded,           \* per resolved call, the list it resolved with
    children,         \* the children of the cookieList <ul>
    searchValue,      \* searchField.value
    dialogOpen,       \* whether the browser dialog is shown
    \* ---- RuleDialog ----
    editable,         \* props.editable
    expression,       \* props.expression (<<>> when absent or empty)
    exactRules,       \* expressions for which settings has an exact rule
    inputValue,       \* expressionElement.value
    temporaryChecked, \* temporaryCheckbox.checked
    ruleDialogOpen,   \* whether the rule dialog is shown
    confirmDialog,    \* the open replace-confirmation, or NoConfirm
    focus,            \* the element holding the focus
    events            \* hideDialog and onConfirm calls, in order

listVars == <<settingsRule, tld, pc, cookies, cookiesByDomain, result, result2>>
browserVars == <<clicks, pending, loaded, children, searchValue, dialogOpen>>
ruleVars == <<editable, expression, exactRules, inputValue, temporaryChecked,
              ruleDialogOpen, confirmDialog, focus, events>>
vars == <<listVars, browserVars, ruleVars>>

----------------------------------------------------------------------------
(* Bounds *)

MaxCookies == 3

MaxClicks == 3

----------------------------------------------------------------------------
(* Strings *)

\* "." as a code unit
Dot == 46

\* String.prototype.toLowerCase on ASCII: A-Z (65..90) map to a-z
toLowerCase(s) ==
    [i \in 1..Len(s) |-> IF s[i] >= 65 /\ s[i] <= 90 THEN s[i] + 32 ELSE s[i]]

\* the < of two JavaScript strings: lexicographic on code units
StrLess(a, b) ==
    \E k \in 1..(Len(b)) :
        /\ \A i \in 1..(k - 1) : i <= Len(a) /\ a[i] = b[i]
        /\ \/ k = Len(a) + 1
           \/ k <= Len(a) /\ a[k] < b[k]

\* String.prototype.trim on the space character
RECURSIVE trimStart(_)
trimStart(s) == IF s # <<>> /\ Head(s) = 32 THEN trimStart(Tail(s)) ELSE s

RECURSIVE trimEnd(_)
trimEnd(s) ==
    IF s # <<>> /\ s[Len(s)] = 32 THEN trimEnd(SubSeq(s, 1, Len(s) - 1)) ELSE s

trim(s) == trimEnd(trimStart(s))

\* haystack.indexOf(needle) !== -1
Includes(haystack, needle) ==
    \E k \in 0..(Len(haystack) - Len(needle)) :
        \A i \in 1..Len(needle) : haystack[k + i] = needle[i]

\* Array.prototype.sort (a stable sort): cmp[i, j] is what the comparator
\* returns for s[i] and s[j]
ArraySort(s, cmp) ==
    LET pos(i) == 1 + Cardinality({j \in 1..Len(s) :
                        \/ cmp[j, i] < 0
                        \/ cmp[j, i] = 0 /\ j < i})
    IN [p \in 1..Len(s) |-> s[CHOOSE i \in 1..Len(s) : pos(i) = p]]

----------------------------------------------------------------------------
(* Comparators *)

compareCaseInsensitive(a, b) ==
    LET lowerA == toLowerCase(a)
        lowerB == toLowerCase(b)
    IN IF StrLess(lowerA, lowerB) THEN -1
       ELSE IF StrLess(lowerB, lowerA) THEN 1
       ELSE 0

\* faulty variant: the comparison without the lower-casing
compareCaseSensitive(a, b) ==
    IF StrLess(a, b) THEN -1 ELSE IF StrLess(b, a) THEN 1 ELSE 0

\* faulty variant: the first-party domain is ignored
compareDomainOnly(a, b) == compareCaseInsensitive(a.domain, b.domain)

compareDomain(a, b) ==
    LET value == compareCaseInsensitive(a.firstPartyDomain, b.firstPartyDomain)
    IN IF value # 0 THEN value
       ELSE compareCaseInsensitive(a.domain, b.domain)

\* faulty variant: cookie names compared case-sensitively
compareCookieNameCaseSensitive(a, b) ==
    compareCaseSensitive(a.cookie.name, b.cookie.name)

compareCookieName(a, b) == compareCaseInsensitive(a.cookie.name, b.cookie.name)

----------------------------------------------------------------------------
(* Inputs of getCookieList *)

\* ".b.c", "b.c", "a.b.c" and "Z"
CookieDomains == {<<46, 98, 46, 99>>, <<98, 46, 99>>, <<97, 46, 98, 46, 99>>, <<90>>}

\* "a" and "B"
CookieNames == {<<97>>, <<66>>}

\* Cookies.Cookie: the fields getCookieList reads
Cookie == [domain : CookieDomains, name : CookieNames]

RECURSIVE SeqsUpTo(_, _)
SeqsUpTo(S, n) ==
    IF n = 0 THEN {<<>>}
    ELSE LET shorter == SeqsUpTo(S, n - 1)
         IN shorter \cup {Append(q, x) : q \in {r \in shorter : Len(r) = n - 1}, x \in S}

\* what browser.cookies.getAll({}) may resolve with
CookieLists == SeqsUpTo(Cookie, MaxCookies)

----------------------------------------------------------------------------
(* Collaborators of getCookieList *)

CleanupTypes == {"never", "startup", "leave", "instantly"}

\* the type with no rule matching
DefaultCleanupType == "leave"

\* "*": a rule for every cookie of its domain
AnyName == <<42>>

\* the rules settings may hold: one rule, for ".b.c" or "b.c", for every
\* cookie of the domain or for the cookie "a" alone
SettingsRules ==
    [domain : {<<46, 98, 46, 99>>, <<98, 46, 99>>},
     name : {AnyName, <<97>>},
     type : {"never"}]

\* settings.getCleanupTypeForDomain
getCleanupTypeForDomain(domain) ==
    IF settingsRule.domain = domain /\ settingsRule.name = AnyName
    THEN settingsRule.type
    ELSE DefaultCleanupType

\* settings.getCleanupTypeForCookie
getCleanupTypeForCookie(domain, name) ==
    IF settingsRule.domain = domain /\ settingsRule.name \in {AnyName, name}
    THEN settingsRule.type
    ELSE DefaultCleanupType

\* getBadgeForCleanupType: one badge per cleanup type
getBadgeForCleanupType(type) ==
    [className |-> type, i18nBadge |-> type, i18nButton |-> type]

\* cookie.domain.startsWith(".") ? cookie.domain.substr(1) : cookie.domain
RawDomain(domain) ==
    IF domain # <<>> /\ Head(domain) = Dot THEN Tail(domain) ELSE domain

RawDomains == {RawDomain(d) : d \in CookieDomains}

\* a result of tldjs getDomain: null, or a string (which may be empty)
NullResult == [isNull |-> TRUE, value |-> <<>>]

StringResult(s) == [isNull |-> FALSE, value |-> s]

\* the answers getDomain may give: nothing (null or "") for the single label
\* "Z"; null or "b.c" for "b.c" and for "a.b.c"
Resolvers ==
    {f \in [RawDomains ->
                {NullResult, StringResult(<<>>), StringResult(<<98, 46, 99>>)}] :
        /\ f[<<90>>] \in {NullResult, StringResult(<<>>)}
        /\ \A d \in RawDomains \ {<<90>>} : f[d] # StringResult(<<>>)}

\* getDomain of tldjs
getDomain(rawDomain) == tld[rawDomain]

\* faulty variant: no fallback when getDomain gives nothing
FirstPartyDomainNoFallback(rawDomain) == getDomain(rawDomain).value

\* getDomain(rawDomain) || rawDomain
FirstPartyDomain(rawDomain) ==
    LET found == getDomain(rawDomain)
    IN IF found.isNull \/ found.value = <<>> THEN rawDomain ELSE found.value

----------------------------------------------------------------------------
(* getCookieList *)

\* faulty variant: the cookie is classified under its un-stripped domain
CookieBadgeUnstripped(cookie) ==
    getBadgeForCleanupType(getCleanupTypeForCookie(cookie.domain, cookie.name))

\* the badge of one cookie
CookieBadge(cookie) ==
    getBadgeForCleanupType(
        getCleanupTypeForCookie(RawDomain(cookie.domain), cookie.name))

\* the badge of the group a cookie creates
DomainBadge(cookie) ==
    getBadgeForCleanupType(getCleanupTypeForDomain(RawDomain(cookie.domain)))

\* cookiesByDomain is an object: its keys in insertion order, each with its value
KeyIndex(object, key) ==
    IF \E i \in 1..Len(object) : object[i].key = key
    THEN CHOOSE i \in 1..Len(object) : object[i].key = key
    ELSE 0

\* object[key] = value: a new key goes last, an old one keeps its place
SetKey(object, key, value) ==
    IF KeyIndex(object, key) = 0
    THEN Append(object, [key |-> key, value |-> value])
    ELSE [object EXCEPT ![KeyIndex(object, key)].value = value]

\* one round of the loop over the cookies
AddCookie(object, cookie) ==
    LET rawDomain == RawDomain(cookie.domain)
        firstPartyDomain == FirstPartyDomain(rawDomain)
        badge == CookieBadge(cookie)
        byDomain == KeyIndex(object, cookie.domain)
        mapped == [badge |-> badge, cookie |-> cookie]
    IN IF byDomain # 0
       THEN [object EXCEPT ![byDomain].value.cookies = Append(@, mapped)]
       ELSE SetKey(object, rawDomain,
                   [badge |-> DomainBadge(cookie),
                    domain |-> cookie.domain,
                    firstPartyDomain |-> firstPartyDomain,
                    cookies |-> <<mapped>>])

RECURSIVE AddCookies(_, _)
AddCookies(object, list) ==
    IF list = <<>> THEN object
    ELSE AddCookies(AddCookie(object, Head(list)), Tail(list))

\* faulty variant: the object outlives the call
SharedCookiesByDomain == cookiesByDomain

\* const cookiesByDomain = {}
NewCookiesByDomain == <<>>

\* Object.keys(cookiesByDomain).map(...).sort(compareDomain), then each
\* group's cookies sorted by name
SortedList(object) ==
    LET values == [i \in 1..Len(object) |-> object[i].value]
        cookiesByDomainList ==
            ArraySort(values,
                      [i, j \in 1..Len(values) |-> compareDomain(values[i], values[j])])
    IN [g \in 1..Len(object) |->
           LET a == cookiesByDomainList[g]
           IN [a EXCEPT
                 !.cookies =
                     ArraySort(a.cookies,
                               [i, j \in 1..Len(a.cookies) |->
                                   compareCookieName(a.cookies[i], a.cookies[j])])]]

\* the first call: getAll resolves with any list of cookies
GetCookieList ==
    /\ pc = "idle"
    /\ \E list \in CookieLists :
          LET object == AddCookies(NewCookiesByDomain, list)
          IN /\ cookies' = list
             /\ cookiesByDomain' = object
             /\ result' = SortedList(object)
    /\ pc' = "first"
    /\ UNCHANGED <<settingsRule, tld, result2, browserVars, ruleVars>>

\* a second call, on the same cookies
GetCookieListAgain ==
    /\ pc = "first"
    /\ LET object == AddCookies(NewCookiesByDomain, cookies)
       IN /\ cookiesByDomain' = object
          /\ result2' = SortedList(object)
    /\ pc' = "second"
    /\ UNCHANGED <<settingsRule, tld, cookies, result, browserVars, ruleVars>>

\* getCookieList as a whole, from the cookies getAll resolved with
getCookieList(list) == SortedList(AddCookies(NewCookiesByDomain, list))

----------------------------------------------------------------------------
(* CookieBrowserDialog *)

\* the cookie stores the dialog is opened on: none, one cookie of "Z" with
\* the value "a", two cookies of "b.c"
BrowserCookieLists ==
    { <<>>,
      <<[domain |-> <<90>>, name |-> <<66>>, value |-> <<97>>]>>,
      <<[domain |-> <<98, 46, 99>>, name |-> <<66>>, value |-> <<>>],
        [domain |-> <<46, 98, 46, 99>>, name |-> <<97>>, value |-> <<>>]>> }

\* what the user may type into the search field: "", "a", " B " and "z"
SearchValues == {<<>>, <<97>>, <<32, 66, 32>>, <<122>>}

\* the <li> of one group: not collapsed when built
mapToDomainItem(entry) == [entry |-> entry, collapsed |-> FALSE]

\* the text of the elements of an item that carry data-searchable
Searchables(item) ==
    {item.entry.domain}
        \cup {item.entry.cookies[i].cookie.name : i \in 1..Len(item.entry.cookies)}
        \cup {item.entry.cookies[i].cookie.value : i \in 1..Len(item.entry.cookies)}

filterList(list, value) ==
    LET needle == toLowerCase(trim(value))
    IN IF needle # <<>>
       THEN [i \in 1..Len(list) |->
                [list[i] EXCEPT !.collapsed =
                    \A text \in Searchables(list[i]) :
                        ~Includes(toLowerCase(text), needle)]]
       ELSE [i \in 1..Len(list) |-> [list[i] EXCEPT !.collapsed = FALSE]]

\* the click handler of the button, up to the pending getCookieList call
ClickButton ==
    /\ clicks < MaxClicks
    /\ clicks' = clicks + 1
    /\ children' = <<>>
    /\ pending' = pending \cup {clicks + 1}
    /\ dialogOpen' = TRUE
    /\ UNCHANGED <<loaded, searchValue, listVars, ruleVars>>

\* the then-callback of one pending call
CookieListLoaded ==
    \E call \in pending, stored \in BrowserCookieLists :
        LET list == getCookieList(stored)
            appended == children \o [i \in 1..Len(list) |-> mapToDomainItem(list[i])]
        IN /\ children' = filterList(appended, searchValue)
           /\ loaded' = loaded \cup {[call |-> call, list |-> list]}
           /\ pending' = pending \ {call}
           /\ UNCHANGED <<clicks, searchValue, dialogOpen, listVars, ruleVars>>

\* the input handler of the search field
SearchInput ==
    \E value \in SearchValues :
        /\ dialogOpen
        /\ searchValue' = value
        /\ children' = filterList(children, value)
        /\ UNCHANGED <<clicks, pending, loaded, dialogOpen, listVars, ruleVars>>

\* onCancel of the cookie browser
BrowserCancel ==
    /\ dialogOpen
    /\ dialogOpen' = FALSE
    /\ UNCHANGED <<clicks, pending, loaded, children, searchValue, listVars, ruleVars>>

----------------------------------------------------------------------------
(* RuleDialog *)

\* the expressions the dialog is opened with: none, "a" and "b"
PropExpressions == {<<>>, <<97>>, <<98>>}

\* what the user may leave in the expression input: "", "a", " A ", "b", "!"
InputValues == {<<>>, <<97>>, <<32, 65, 32>>, <<98>>, <<33>>}

\* isValidExpression: not empty, and made of a-z, 0-9, "*", "-", "." and "@"
isValidExpression(expr) ==
    /\ expr # <<>>
    /\ \A i \in 1..Len(expr) :
          \/ expr[i] >= 97 /\ expr[i] <= 122
          \/ expr[i] >= 48 /\ expr[i] <= 57
          \/ expr[i] \in {42, 45, 46, 64}

\* settings.getExactRuleDefinition(expr) !== null
HasExactRule(expr) == expr \in exactRules

\* no replace-confirmation is open
NoConfirm == [open |-> FALSE, type |-> "false", expression |-> <<>>]

\* a call of hideDialog(dialog)
HideEvent ==
    [call |-> "hideDialog", type |-> "false", expression |-> <<>>, temporary |-> FALSE]

\* a call of onConfirm(type, expression, temporary)
ConfirmEvent(type, expr, temporary) ==
    [call |-> "onConfirm", type |-> type, expression |-> expr, temporary |-> temporary]

\* hideDialog(dialog); onConfirm(type, expression, temporaryCheckbox.checked)
HideAndConfirm(type, expr) ==
    /\ ruleDialogOpen' = FALSE
    /\ events' = events \o <<HideEvent, ConfirmEvent(type, expr, temporaryChecked)>>

\* dialog.querySelector("input"): the expression input when it is rendered
\* as an input, else the checkbox when that is rendered
FirstInput ==
    IF expression = <<>> THEN "none"
    ELSE IF editable THEN "expressionElement"
    ELSE "temporaryCheckbox"

\* faulty variant: the dialog is confirmed without asking
confirmAndHideUnchecked(type, expr) ==
    /\ HideAndConfirm(type, expr)
    /\ UNCHANGED <<confirmDialog, focus>>

confirmAndHideChecked(type, expr) ==
    IF editable /\ expr # <<>> /\ HasExactRule(expr)
    THEN /\ confirmDialog' = [open |-> TRUE, type |-> type, expression |-> expr]
         /\ UNCHANGED <<ruleDialogOpen, events, focus>>
    ELSE /\ HideAndConfirm(type, expr)
         /\ UNCHANGED <<confirmDialog, focus>>

\* a click on one of the four cleanup type buttons
selectRule ==
    \E type \in CleanupTypes :
        /\ ruleDialogOpen
        /\ ~confirmDialog.open
        /\ IF expression = <<>>
           THEN confirmAndHideChecked(type, <<>>)
           ELSE IF ~editable
           THEN confirmAndHideChecked(type, expression)
           ELSE LET changedExpression == toLowerCase(trim(inputValue))
                IN IF changedExpression # <<>> /\ isValidExpression(changedExpression)
                   THEN confirmAndHideChecked(type, changedExpression)
                   ELSE UNCHANGED <<ruleDialogOpen, events, confirmDialog, focus>>
        /\ UNCHANGED <<editable, expression, exactRules, inputValue,
                       temporaryChecked, listVars, browserVars>>

\* the replace-confirmation closes with true or with false
onConfirmClose ==
    \E value \in BOOLEAN :
        /\ confirmDialog.open
        /\ confirmDialog' = NoConfirm
        /\ IF value
           THEN /\ HideAndConfirm(confirmDialog.type, confirmDialog.expression)
                /\ UNCHANGED focus
           ELSE /\ focus' = IF FirstInput = "none" THEN focus ELSE FirstInput
                /\ UNCHANGED <<ruleDialogOpen, events>>
        /\ UNCHANGED <<editable, expression, exactRules, inputValue,
                       temporaryChecked, listVars, browserVars>>

\* a click on the cancel button
onCancel ==
    /\ ruleDialogOpen
    /\ ~confirmDialog.open
    /\ ruleDialogOpen' = FALSE
    /\ events' = events \o <<HideEvent, ConfirmEvent("false", <<>>, FALSE)>>
    /\ UNCHANGED <<editable, expression, exactRules, inputValue, temporaryChecked,
                   confirmDialog, focus, listVars, browserVars>>

\* the user edits the expression input
EditExpression ==
    \E value \in InputValues :
        /\ ruleDialogOpen
        /\ ~confirmDialog.open
        /\ editable
        /\ expression # <<>>
        /\ inputValue' = value
        /\ UNCHANGED <<editable, expression, exactRules, temporaryChecked,
                       ruleDialogOpen, confirmDialog, focus, events,
                       listVars, browserVars>>

\* the user ticks or unticks the temporary checkbox
ToggleTemporary ==
    /\ ruleDialogOpen
    /\ ~confirmDialog.open
    /\ expression # <<>>
    /\ temporaryChecked' = ~temporaryChecked
    /\ UNCHANGED <<editable, expression, exactRules, inputValue,
                   ruleDialogOpen, confirmDialog, focus, events,
                   listVars, browserVars>>

----------------------------------------------------------------------------
(* Specifications *)

\* no getCookieList call was made
ListIdle ==
    /\ pc = "idle"
    /\ cookies = <<>>
    /\ cookiesByDomain = <<>>
    /\ result = <<>>
    /\ result2 = <<>>

\* the cookie browser was built and never opened
BrowserIdle ==
    /\ clicks = 0
    /\ pending = {}
    /\ loaded = {}
    /\ children = <<>>
    /\ searchValue = <<>>
    /\ dialogOpen = FALSE

\* no rule dialog was built
RuleIdle ==
    /\ editable = FALSE
    /\ expression = <<>>
    /\ exactRules = {}
    /\ inputValue = <<>>
    /\ temporaryChecked = FALSE
    /\ ruleDialogOpen = FALSE
    /\ confirmDialog = NoConfirm
    /\ focus = "none"
    /\ events = <<>>

\* getCookieList, under any rule and any resolver
Init ==
    /\ settingsRule \in SettingsRules
    /\ tld \in Resolvers
    /\ ListIdle
    /\ BrowserIdle
    /\ RuleIdle

Next == GetCookieList \/ GetCookieListAgain

Spec == Init /\ [][Next]_vars

\* the cookie browser, with a rule for "b.c" and a resolver that knows "b.c"
InitBrowser ==
    /\ settingsRule = [domain |-> <<98, 46, 99>>, name |-> AnyName, type |-> "never"]
    /\ tld = [d \in RawDomains |->
                 IF d = <<90>> THEN NullResult ELSE StringResult(<<98, 46, 99>>)]
    /\ ListIdle
    /\ BrowserIdle
    /\ RuleIdle

NextBrowser == ClickButton \/ CookieListLoaded \/ SearchInput \/ BrowserCancel

SpecBrowser == InitBrowser /\ [][NextBrowser]_vars

\* the rule dialog as RuleDialog(props) leaves it: shown, the input holding
\* the expression, the checkbox as the temporary prop says
InitRule ==
    /\ editable \in BOOLEAN
    /\ expression \in PropExpressions
    /\ exactRules \in {{}, {<<97>>}}
    /\ inputValue = expression
    /\ temporaryChecked \in BOOLEAN
    /\ ruleDialogOpen = TRUE
    /\ confirmDialog = NoConfirm
    /\ focus = IF editable /\ expression # <<>> /\ HasExactRule(expression)
               THEN "expressionElement"
               ELSE "cleanupTypeButton"
    /\ events = <<>>
    /\ settingsRule = [domain |-> <<98, 46, 99>>, name |-> AnyName, type |-> "never"]
    /\ tld = [d \in RawDomains |-> NullResult]
    /\ ListIdle
    /\ BrowserIdle

NextRule == selectRule \/ onConfirmClose \/ onCancel \/ EditExpression \/ ToggleTemporary

SpecRule == InitRule /\ [][NextRule]_vars

----------------------------------------------------------------------------
(* Properties of getCookieList *)

\* the number of cookie entries of all groups of a list
RECURSIVE TotalEntries(_)
TotalEntries(list) ==
    IF list = <<>> THEN 0 ELSE Len(Head(list).cookies) + TotalEntries(Tail(list))

\* the cookie is an entry of the group
InGroup(group, cookie) ==
    \E k \in 1..Len(group.cookies) : group.cookies[k].cookie = cookie

\* a <= b for two strings
StrLeq(a, b) == ~StrLess(b, a)

\* (a1, a2) <= (b1, b2), lexicographically
PairLeq(a1, a2, b1, b2) == StrLess(a1, b1) \/ (a1 = b1 /\ StrLeq(a2, b2))

\* C1: the groups hold as many cookie entries as getAll returned cookies.
C1_EveryCookieListed ==
    pc # "idle" => TotalEntries(result) = Len(cookies)

\* C2: two cookies whose domains are equal after the strip of one leading "."
\* are entries of one and the same group.
C2_SameRawDomainSameGroup ==
    pc # "idle" =>
        \A i, j \in 1..Len(cookies) :
            RawDomain(cookies[i].domain) = RawDomain(cookies[j].domain) =>
                \E g \in 1..Len(result) :
                    InGroup(result[g], cookies[i]) /\ InGroup(result[g], cookies[j])

C4_CookiesSortedByName ==
    pc # "idle" =>
        \A g \in 1..Len(result) :
            \A j \in 1..(Len(result[g].cookies) - 1) :
                StrLeq(toLowerCase(result[g].cookies[j].cookie.name),
                       toLowerCase(result[g].cookies[j + 1].cookie.name))

\* a group lists "a" ahead of "B" though getAll returned "B" first
C4_NamesReordered ==
    /\ pc # "idle"
    /\ \E g \in 1..Len(result) :
          /\ Len(result[g].cookies) = 2
          /\ result[g].cookies[1].cookie.name = <<97>>
          /\ result[g].cookies[2].cookie.name = <<66>>
          /\ \E i, j \in 1..Len(cookies) :
                /\ i < j
                /\ cookies[i] = result[g].cookies[2].cookie
                /\ cookies[j] = result[g].cookies[1].cookie

\* the first cookie of the list with the raw domain of cookie i
FirstOfBucket(i) ==
    CHOOSE j \in 1..Len(cookies) :
        /\ RawDomain(cookies[j].domain) = RawDomain(cookies[i].domain)
        /\ \A k \in 1..(j - 1) :
              RawDomain(cookies[k].domain) # RawDomain(cookies[i].domain)

\* C5: the group of a raw domain is created by the first cookie of that raw
\* domain and never again: it shows that cookie's un-stripped domain and
\* holds every later cookie of the raw domain.
C5_FirstCookieCreatesGroup ==
    pc # "idle" =>
        \A i \in 1..Len(cookies) :
            \E g \in 1..Len(result) :
                /\ result[g].domain = cookies[FirstOfBucket(i)].domain
                /\ InGroup(result[g], cookies[i])
                /\ Len(result[g].cookies)
                     = Cardinality({j \in 1..Len(cookies) :
                           RawDomain(cookies[j].domain) = RawDomain(cookies[i].domain)})

\* C6: every badge is the badge of the oracle's answer for the stripped
\* domain: classifyCookie(rawDomain, name) for an entry,
\* classifyDomain(rawDomain) for a group.
C6_BadgesOfRawDomain ==
    pc # "idle" =>
        \A g \in 1..Len(result) :
            /\ result[g].badge = getBadgeForCleanupType(
                   getCleanupTypeForDomain(RawDomain(result[g].domain)))
            /\ \A k \in 1..Len(result[g].cookies) :
                  LET entry == result[g].cookies[k]
                  IN entry.badge = getBadgeForCleanupType(
                         getCleanupTypeForCookie(RawDomain(entry.cookie.domain),
                                                 entry.cookie.name))

\* a group shown with a leading "." whose badge, and the badge of one of its
\* cookies, comes from the rule for the stripped domain
C6_DottedGroupUnderRule ==
    /\ pc # "idle"
    /\ \E g \in 1..Len(result) :
          /\ Head(result[g].domain) = Dot
          /\ settingsRule.domain = RawDomain(result[g].domain)
          /\ result[g].badge = getBadgeForCleanupType(settingsRule.type)
          /\ \E k \in 1..Len(result[g].cookies) :
                result[g].cookies[k].badge = getBadgeForCleanupType(settingsRule.type)

\* C7: a group's first-party domain is the resolver's answer for the raw
\* domain, and the raw domain itself when the answer is null or empty.
C7_FirstPartyFallback ==
    pc # "idle" =>
        \A g \in 1..Len(result) :
            LET rawDomain == RawDomain(result[g].domain)
                found == tld[rawDomain]
            IN IF found.isNull \/ found.value = <<>>
               THEN result[g].firstPartyDomain = rawDomain
               ELSE result[g].firstPartyDomain = found.value

\* one list with a group the resolver knew nothing of (null), one it gave
\* "" for and one it resolved to another domain
C7_AllResolverAnswers ==
    /\ pc # "idle"
    /\ \E g \in 1..Len(result) : tld[RawDomain(result[g].domain)] = NullResult
    /\ \E g \in 1..Len(result) :
          tld[RawDomain(result[g].domain)] = StringResult(<<>>)
    /\ \E g \in 1..Len(result) :
          /\ ~tld[RawDomain(result[g].domain)].isNull
          /\ tld[RawDomain(result[g].domain)].value
                \notin {<<>>, RawDomain(result[g].domain)}

----------------------------------------------------------------------------
(* Properties of the cookie browser *)

\* C9: once no call is pending, the list shows the groups of the most
\* recent click's result, each once, and nothing else.
C9_ListShowsLastResult ==
    (clicks > 0 /\ pending = {}) =>
        \E r \in loaded :
            /\ r.call = clicks
            /\ [i \in 1..Len(children) |-> children[i].entry] = r.list

----------------------------------------------------------------------------
(* Properties of the rule dialog *)

\* the expression selectRule reads from the input
Entered == toLowerCase(trim(inputValue))

\* the last call the step made
LastEvent == events'[Len(events')]

\* the step hid the dialog and called onConfirm with a cleanup type
ConfirmsType == events' # events /\ LastEvent.type # "false"

\* a selection that opens the replace-confirmation neither hides the dialog
\* nor calls onConfirm
SelectionAsks ==
    (~confirmDialog.open /\ confirmDialog'.open) =>
        (events' = events /\ ruleDialogOpen' = ruleDialogOpen)

\* onConfirm for an expression with an exact rule, in editable mode, is
\* called when the confirmation closes and only then, after hideDialog, with
\* the type and expression of the selection and the state of the checkbox
ReplaceOnlyOnClose ==
    ( /\ ConfirmsType
      /\ editable
      /\ LastEvent.expression # <<>>
      /\ HasExactRule(LastEvent.expression) ) =>
        /\ confirmDialog.open
        /\ ~confirmDialog'.open
        /\ events' = events \o
              <<HideEvent,
                ConfirmEvent(confirmDialog.type, confirmDialog.expression,
                             temporaryChecked)>>
        /\ ~ruleDialogOpen'

\* a confirmation that closes without onConfirm leaves the dialog open
RejectKeepsOpen ==
    (confirmDialog.open /\ ~confirmDialog'.open /\ ~ConfirmsType) =>
        (events' = events /\ ruleDialogOpen' /\ ruleDialogOpen)

\* with an empty or invalid expression entered, no step calls onConfirm with
\* a cleanup type or opens the confirmation, and only onCancel hides
InvalidEntryIgnored ==
    (~confirmDialog.open /\ (Entered = <<>> \/ ~isValidExpression(Entered))) =>
        /\ ~ConfirmsType
        /\ ~confirmDialog'.open
        /\ ruleDialogOpen' # ruleDialogOpen =>
              LastEvent = ConfirmEvent("false", <<>>, FALSE)

====
